---------------------------- MODULE Spec2Model ----------------------------
(***************************************************************************)
(* Parallel Strassen matrix multiplication (Matrix.h, main.cpp).           *)
(*                                                                         *)
(* The module models                                                       *)
(*   - the addressable surfaces: Matrix<T> (owns a row-major buffer) and   *)
(*     View<T> (a window that borrows another surface), with the bounds    *)
(*     checks that "#define mDebug" compiles in;                           *)
(*   - Matrix<T>::Multiplication, the naive triple loop;                   *)
(*   - Matrix<T>::P_Strassen, with its OpenMP parallel loops and parallel  *)
(*     sections, as run by main().                                         *)
(*                                                                         *)
(* Three specifications share the variables:                               *)
(*   Spec      main(): P_Strassen on C, then Multiplication on C;          *)
(*   SpecMul   Multiplication called on windows of A, B and C;             *)
(*   SpecView  a store of View objects under makeView, copy, assignment    *)
(*             and element access.                                         *)
(***************************************************************************)
EXTENDS Integers, Sequences, FiniteSets, TLC

(***************************************************************************)
(* Bounds of the model.                                                    *)
(***************************************************************************)
\* the row lengths N that main is given: 1 .. MaxN
MaxN == 6
\* the inputs 0 .. MaxInput a run starts from: input k is srand(k) filling A
\* and B, with uninitialized storage holding pattern k
MaxInput == 1
\* the level P_Strassen is called with: 0 .. MaxLevel
MaxLevel == 2
\* the number of threads of the team that runs a parallel sections region
NumThreads == 2
\* SpecView: the number of View objects made
MaxViews == 2

(***************************************************************************)
(* Program constants.                                                      *)
(***************************************************************************)
\* P_Strassen: "if (level > 1)" falls back to Multiplication
LevelLimit == 1
\* main: rand() % 201
RandModulus == 201
\* main: ... - 100
RandShift == 100

VARIABLES
    N,          \* main: the row length read from the input
    level,      \* the level P_Strassen is called with (main: 0)
    calls,      \* per level: the number of P_Strassen invocations started
    pc,         \* main: where the program is
    heap,       \* the storage of every live Matrix: address -> value
    init,       \* the addresses written since their allocation
    junk,       \* the input: the pattern that uninitialized storage holds
    phase,      \* per P_Strassen frame: the region it is in (0: no frame)
    iter,       \* per frame: the (i, j) iterations of the current loop done
    sect,       \* per frame: the state of each of the seven sections
    err,        \* the exception that ended the program ("none": none)
    uninitRead, \* whether an element was read before it was ever written
    mulPos,     \* Multiplication: the number of (i, j) cells done
    mulArgs,    \* the views and the size main passes to P_Strassen and to
                \* Multiplication
    cStrassen,  \* main: the contents of C that P_Strassen left
    views,      \* SpecView: the View objects, by name
    last        \* SpecView: the outcome of the latest operation

vars == <<N, level, calls, pc, heap, init, junk, phase, iter, sect, err, uninitRead,
          mulPos, mulArgs, cStrassen, views, last>>

(***************************************************************************)
(* Exceptions.                                                             *)
(***************************************************************************)
BadArrayAccess(r, c) == [kind |-> "BadArrayAccess", row |-> r, col |-> c]

IllegalViewSize(r, c) == [kind |-> "IllegalViewSize", row |-> r, col |-> c]

IsError(x) == x.kind \in {"BadArrayAccess", "IllegalViewSize"}

(***************************************************************************)
(* Surfaces.  A Matrix is named by id and owns the cells <<id, 0>> ..      *)
(* <<id, rows*cols - 1>>; a View holds the surface it is based on and its  *)
(* offsets and extents.                                                    *)
(***************************************************************************)
Matrix(id, r, c) == [kind |-> "Matrix", id |-> id, rows |-> r, cols |-> c]

View(basedOn, r, c, rows, cols) ==
    [kind |-> "View", base |-> basedOn, rowOffset |-> r, colOffset |-> c,
     maxRows |-> rows, maxCols |-> cols]

\* the address of data[k] of matrix id
Addr(id, k) == <<id[1], id[2], k>>

\* Matrix<T>::operator(): the element, or the exception thrown
MatrixIndex(m, row, col) ==
    IF row < 0 \/ row >= m.rows \/ col < 0 \/ col >= m.cols
    THEN BadArrayAccess(row, col)
    ELSE [kind |-> "Cell", addr |-> Addr(m.id, row * m.cols + col)]

RECURSIVE ViewIndex(_, _, _)
\* Viewable<T>::operator(): the virtual call on the surface a View is based on
Index(s, row, col) ==
    IF s.kind = "Matrix" THEN MatrixIndex(s, row, col)
    ELSE ViewIndex(s, row, col)

\* View<T>::operator() adding the offsets the wrong way round
ViewIndex_Swapped(v, row, col) ==
    IF row < 0 \/ row >= v.maxRows \/ col < 0 \/ col >= v.maxCols
    THEN BadArrayAccess(row, col)
    ELSE Index(v.base, row + v.colOffset, col + v.rowOffset)

\* View<T>::operator()
ViewIndex(v, row, col) ==
    IF row < 0 \/ row >= v.maxRows \/ col < 0 \/ col >= v.maxCols
    THEN BadArrayAccess(row, col)
    ELSE Index(v.base, row + v.rowOffset, col + v.colOffset)

\* Matrix<T>::makeView checking only the far edges
Matrix_makeView_NoLowerCheck(m, r, c, rowCount, colCount) ==
    IF r + rowCount > m.rows \/ c + colCount > m.cols
    THEN IllegalViewSize(rowCount, colCount)
    ELSE View(m, r, c, rowCount, colCount)

\* Matrix<T>::makeView
Matrix_makeView(m, r, c, rowCount, colCount) ==
    IF r < 0 \/ r + rowCount > m.rows \/ c < 0 \/ c + colCount > m.cols
    THEN IllegalViewSize(rowCount, colCount)
    ELSE View(m, r, c, rowCount, colCount)

\* View<T>::makeView without its check
View_makeView_Unchecked(v, r, c, rows, cols) == View(v, r, c, rows, cols)

\* View<T>::makeView
View_makeView(v, r, c, rows, cols) ==
    IF r < 0 \/ r + rows > v.maxRows \/ c < 0 \/ c + cols > v.maxCols
    THEN IllegalViewSize(rows, cols)
    ELSE View(v, r, c, rows, cols)

(***************************************************************************)
(* Memory.  A memory is [heap, init, err, uninitRead]; statements map a    *)
(* memory to a memory.  Once an exception is thrown (err # "none") nothing *)
(* more is executed.                                                       *)
(***************************************************************************)
Mem(h, w, e, u) == [heap |-> h, init |-> w, err |-> e, uninitRead |-> u]

\* the value read through reference x (0 stands in when the access threw or
\* the storage is gone: Store then ends the program instead of storing)
Load(m, x) ==
    IF IsError(x) THEN 0
    ELSE IF x.addr \in DOMAIN m.heap THEN m.heap[x.addr] ELSE 0

\* the memory after the statement "target = value", where the right-hand
\* side read the references in sources
Store(m, target, sources, value) ==
    IF m.err # "none" THEN m
    ELSE IF \E x \in sources \cup {target} : IsError(x)
    THEN [m EXCEPT !.err =
            (CHOOSE x \in sources \cup {target} : IsError(x)).kind]
    ELSE IF \E x \in sources \cup {target} : x.addr \notin DOMAIN m.heap
    THEN [m EXCEPT !.err = "DeadStorage"]
    ELSE [m EXCEPT !.heap[target.addr] = value,
                   !.init = @ \cup {target.addr},
                   !.uninitRead = @ \/ (\E x \in sources : x.addr \notin m.init)]


(***************************************************************************)
(* Matrix<T>::Multiplication.  T is int; with the inputs main generates    *)
(* (-100 .. 100) and the sizes modelled no intermediate value leaves the   *)
(* range of int, so values are kept as integers.                            *)
(***************************************************************************)
\* c(i, j) = c(i, j) + a(i, k) * b(k, j)
MulK(m, a, b, c, i, j, k) ==
    LET cij == Index(c, i, j)
        aik == Index(a, i, k)
        bkj == Index(b, k, j)
    IN  Store(m, cij, {cij, aik, bkj}, Load(m, cij) + Load(m, aik) * Load(m, bkj))

RECURSIVE MulLoopK(_, _, _, _, _, _, _, _)
\* for (int k = ...; k < size; k++)
MulLoopK(m, a, b, c, size, i, j, k) ==
    IF m.err # "none" \/ k >= size THEN m
    ELSE MulLoopK(MulK(m, a, b, c, i, j, k), a, b, c, size, i, j, k + 1)

\* MulCell without "c(i, j) = 0": the products are added to what c held
MulCell_Accumulate(m, a, b, c, size, i, j) ==
    MulLoopK(m, a, b, c, size, i, j, 0)

\* the body of the j loop: c(i, j) = 0, then the k loop
MulCell(m, a, b, c, size, i, j) ==
    MulLoopK(Store(m, Index(c, i, j), {}, 0), a, b, c, size, i, j, 0)

RECURSIVE MulRow(_, _, _, _, _, _, _)
\* for (int j = ...; j < size; j++), from j on
MulRow(m, a, b, c, size, i, j) ==
    IF m.err # "none" \/ j >= size THEN m
    ELSE MulRow(MulCell(m, a, b, c, size, i, j), a, b, c, size, i, j + 1)

RECURSIVE MulRows(_, _, _, _, _, _)
\* for (int i = ...; i < size; i++), from i on
MulRows(m, a, b, c, size, i) ==
    IF m.err # "none" \/ i >= size THEN m
    ELSE MulRows(MulRow(m, a, b, c, size, i, 0), a, b, c, size, i + 1)

\* the whole call
Multiplication(m, a, b, c, size) == MulRows(m, a, b, c, size, 0)

(***************************************************************************)
(* Matrix<T>::P_Strassen: the data of one invocation.                      *)
(* args = [a, b, c, size, level].  Frame 0 is the call main makes; frame   *)
(* k in 1 .. 7 is the call of section k of frame 0 when it partitions.     *)
(* Deeper calls have level 2 and never partition.                          *)
(***************************************************************************)
Frames == 0 .. 7

TempNames == {"s1", "s2", "s3", "s4", "s5", "s6", "s7", "s8", "s9", "s10",
              "p1", "p2", "p3", "p4", "p5", "p6", "p7"}

\* the case selection without the test for an odd size
Kind_NoOddCase(args) ==
    IF args.size = 1 THEN "base"
    ELSE IF args.level > LevelLimit THEN "depth"
    ELSE "recursive"

\* the case selection without the test of level
Kind_NoDepthLimit(args) ==
    IF args.size = 1 THEN "base"
    ELSE IF args.size % 2 # 0 THEN "odd"
    ELSE "recursive"

\* the case P_Strassen selects
Kind(args) ==
    IF args.size = 1 THEN "base"
    ELSE IF args.size % 2 # 0 THEN "odd"
    ELSE IF args.level > LevelLimit THEN "depth"
    ELSE "recursive"

\* the views of frame f with c22 made from a instead of c
Local_C22OfA(args, f, name) ==
    LET h == args.size \div 2
    IN  CASE name = "a11" -> View_makeView(args.a, 0, 0, h, h)
          [] name = "a12" -> View_makeView(args.a, 0, h, h, h)
          [] name = "a21" -> View_makeView(args.a, h, 0, h, h)
          [] name = "a22" -> View_makeView(args.a, h, h, h, h)
          [] name = "b11" -> View_makeView(args.b, 0, 0, h, h)
          [] name = "b12" -> View_makeView(args.b, 0, h, h, h)
          [] name = "b21" -> View_makeView(args.b, h, 0, h, h)
          [] name = "b22" -> View_makeView(args.b, h, h, h, h)
          [] name = "c11" -> View_makeView(args.c, 0, 0, h, h)
          [] name = "c12" -> View_makeView(args.c, 0, h, h, h)
          [] name = "c21" -> View_makeView(args.c, h, 0, h, h)
          [] name = "c22" -> View_makeView(args.a, h, h, h, h)
          [] OTHER -> Matrix_makeView(Matrix(<<f, name>>, h, h), 0, 0, h, h)

\* the views a11 .. c22 and the vector elements s[0] .. s[9], p[0] .. p[6]
\* (named s1 .. s10, p1 .. p7 after the matrices they view) of frame f
Local(args, f, name) ==
    LET h == args.size \div 2
    IN  CASE name = "a11" -> View_makeView(args.a, 0, 0, h, h)
          [] name = "a12" -> View_makeView(args.a, 0, h, h, h)
          [] name = "a21" -> View_makeView(args.a, h, 0, h, h)
          [] name = "a22" -> View_makeView(args.a, h, h, h, h)
          [] name = "b11" -> View_makeView(args.b, 0, 0, h, h)
          [] name = "b12" -> View_makeView(args.b, 0, h, h, h)
          [] name = "b21" -> View_makeView(args.b, h, 0, h, h)
          [] name = "b22" -> View_makeView(args.b, h, h, h, h)
          [] name = "c11" -> View_makeView(args.c, 0, 0, h, h)
          [] name = "c12" -> View_makeView(args.c, 0, h, h, h)
          [] name = "c21" -> View_makeView(args.c, h, 0, h, h)
          [] name = "c22" -> View_makeView(args.c, h, h, h, h)
          [] OTHER -> Matrix_makeView(Matrix(<<f, name>>, h, h), 0, 0, h, h)

QuadrantNames == {"a11", "a12", "a21", "a22", "b11", "b12", "b21", "b22",
                  "c11", "c12", "c21", "c22"}

\* the ten loops with the tenth writing s9 again
SLoops_S9Twice == <<
    [dst |-> "s1",  terms |-> << <<1, "b12">>, <<-1, "b22">> >>],
    [dst |-> "s2",  terms |-> << <<1, "a11">>, <<1, "a12">> >>],
    [dst |-> "s3",  terms |-> << <<1, "a21">>, <<1, "a22">> >>],
    [dst |-> "s4",  terms |-> << <<1, "b21">>, <<-1, "b11">> >>],
    [dst |-> "s5",  terms |-> << <<1, "a11">>, <<1, "a22">> >>],
    [dst |-> "s6",  terms |-> << <<1, "b11">>, <<1, "b22">> >>],
    [dst |-> "s7",  terms |-> << <<1, "a12">>, <<-1, "a22">> >>],
    [dst |-> "s8",  terms |-> << <<1, "b21">>, <<1, "b22">> >>],
    [dst |-> "s9",  terms |-> << <<1, "a11">>, <<-1, "a21">> >>],
    [dst |-> "s9",  terms |-> << <<1, "b11">>, <<1, "b12">> >>] >>

\* the ten loops with s5 = a11 - a22
SLoops_S5Difference == <<
    [dst |-> "s1",  terms |-> << <<1, "b12">>, <<-1, "b22">> >>],
    [dst |-> "s2",  terms |-> << <<1, "a11">>, <<1, "a12">> >>],
    [dst |-> "s3",  terms |-> << <<1, "a21">>, <<1, "a22">> >>],
    [dst |-> "s4",  terms |-> << <<1, "b21">>, <<-1, "b11">> >>],
    [dst |-> "s5",  terms |-> << <<1, "a11">>, <<-1, "a22">> >>],
    [dst |-> "s6",  terms |-> << <<1, "b11">>, <<1, "b22">> >>],
    [dst |-> "s7",  terms |-> << <<1, "a12">>, <<-1, "a22">> >>],
    [dst |-> "s8",  terms |-> << <<1, "b21">>, <<1, "b22">> >>],
    [dst |-> "s9",  terms |-> << <<1, "a11">>, <<-1, "a21">> >>],
    [dst |-> "s10", terms |-> << <<1, "b11">>, <<1, "b12">> >>] >>

\* the ten elementwise loops: destination, then the signed operands
SLoops == <<
    [dst |-> "s1",  terms |-> << <<1, "b12">>, <<-1, "b22">> >>],
    [dst |-> "s2",  terms |-> << <<1, "a11">>, <<1, "a12">> >>],
    [dst |-> "s3",  terms |-> << <<1, "a21">>, <<1, "a22">> >>],
    [dst |-> "s4",  terms |-> << <<1, "b21">>, <<-1, "b11">> >>],
    [dst |-> "s5",  terms |-> << <<1, "a11">>, <<1, "a22">> >>],
    [dst |-> "s6",  terms |-> << <<1, "b11">>, <<1, "b22">> >>],
    [dst |-> "s7",  terms |-> << <<1, "a12">>, <<-1, "a22">> >>],
    [dst |-> "s8",  terms |-> << <<1, "b21">>, <<1, "b22">> >>],
    [dst |-> "s9",  terms |-> << <<1, "a11">>, <<-1, "a21">> >>],
    [dst |-> "s10", terms |-> << <<1, "b11">>, <<1, "b12">> >>] >>

\* the sections with the second call taking p1 for its a
Sections_ReadsP1 == <<
    <<"a11", "s1",  "p1">>,
    <<"p1",  "b22", "p2">>,
    <<"s3",  "b11", "p3">>,
    <<"a22", "s4",  "p4">>,
    <<"s5",  "s6",  "p5">>,
    <<"s7",  "s8",  "p6">>,
    <<"s9",  "s10", "p7">> >>

\* the sections with the seventh call given p6 for its c
Sections_SharedP == <<
    <<"a11", "s1",  "p1">>,
    <<"s2",  "b22", "p2">>,
    <<"s3",  "b11", "p3">>,
    <<"a22", "s4",  "p4">>,
    <<"s5",  "s6",  "p5">>,
    <<"s7",  "s8",  "p6">>,
    <<"s9",  "s10", "p6">> >>

\* the seven sections: the a, b and c of each recursive call
Sections == <<
    <<"a11", "s1",  "p1">>,
    <<"s2",  "b22", "p2">>,
    <<"s3",  "b11", "p3">>,
    <<"a22", "s4",  "p4">>,
    <<"s5",  "s6",  "p5">>,
    <<"s7",  "s8",  "p6">>,
    <<"s9",  "s10", "p7">> >>

\* the combination loops with c22 = p5 + p1 - p3 - p7 + (a11 + a22 - s5),
\* which adds nothing as long as a11 and a22 hold what s5 was computed from
CLoops_RereadA == <<
    [dst |-> "c11", terms |-> << <<1, "p5">>, <<1, "p4">>, <<-1, "p2">>, <<1, "p6">> >>],
    [dst |-> "c12", terms |-> << <<1, "p1">>, <<1, "p2">> >>],
    [dst |-> "c21", terms |-> << <<1, "p3">>, <<1, "p4">> >>],
    [dst |-> "c22", terms |-> << <<1, "p5">>, <<1, "p1">>, <<-1, "p3">>, <<-1, "p7">>,
                                 <<1, "a11">>, <<1, "a22">>, <<-1, "s5">> >>] >>

\* the combination loops with c22 = p5 + p1 - p3 + p7
CLoops_WrongSign == <<
    [dst |-> "c11", terms |-> << <<1, "p5">>, <<1, "p4">>, <<-1, "p2">>, <<1, "p6">> >>],
    [dst |-> "c12", terms |-> << <<1, "p1">>, <<1, "p2">> >>],
    [dst |-> "c21", terms |-> << <<1, "p3">>, <<1, "p4">> >>],
    [dst |-> "c22", terms |-> << <<1, "p5">>, <<1, "p1">>, <<-1, "p3">>, <<1, "p7">> >>] >>

\* the four combination loops
CLoops == <<
    [dst |-> "c11", terms |-> << <<1, "p5">>, <<1, "p4">>, <<-1, "p2">>, <<1, "p6">> >>],
    [dst |-> "c12", terms |-> << <<1, "p1">>, <<1, "p2">> >>],
    [dst |-> "c21", terms |-> << <<1, "p3">>, <<1, "p4">> >>],
    [dst |-> "c22", terms |-> << <<1, "p5">>, <<1, "p1">>, <<-1, "p3">>, <<-1, "p7">> >>] >>

(***************************************************************************)
(* The regions of a frame, in program order: phases 1 .. 10 are the loops  *)
(* computing s1 .. s10, phase 11 is the parallel sections region, phases   *)
(* 12 .. 15 are the loops computing c11, c12, c21, c22, and in phase 16    *)
(* the invocation is about to return.                                      *)
(***************************************************************************)
SectionsPhase == 11
ReturnPhase == 16
IsLoopPhase(p) == 1 <= p /\ p < ReturnPhase /\ p # SectionsPhase

LoopOf(p) == IF p <= 10 THEN SLoops[p] ELSE CLoops[p - SectionsPhase]


RECURSIVE SumTerms(_, _, _, _, _, _, _)
\* the right-hand side of a loop body: the signed sum of terms[n ..] at (i, j)
SumTerms(m, args, f, terms, i, j, n) ==
    IF n > Len(terms) THEN 0
    ELSE terms[n][1] * Load(m, Index(Local(args, f, terms[n][2]), i, j))
         + SumTerms(m, args, f, terms, i, j, n + 1)

\* the references a loop body reads at (i, j)
LoopSources(args, f, p, i, j) ==
    LET L == LoopOf(p)
    IN  {Index(Local(args, f, L.terms[n][2]), i, j) : n \in 1 .. Len(L.terms)}

\* a loop body writing dst(i + 1, j)
LoopTarget_NextRow(args, f, p, i, j) == Index(Local(args, f, LoopOf(p).dst), i + 1, j)

\* a loop body writing dst(i, 0) whatever j is
LoopTarget_FirstColumn(args, f, p, i, j) == Index(Local(args, f, LoopOf(p).dst), i, 0)

\* the reference a loop body writes at (i, j)
LoopTarget(args, f, p, i, j) == Index(Local(args, f, LoopOf(p).dst), i, j)

\* the body of the loop of phase p at (i, j): dst(i, j) = x(i, j) +- y(i, j) ...
LoopBody(m, args, f, p, i, j) ==
    Store(m, LoopTarget(args, f, p, i, j), LoopSources(args, f, p, i, j),
          SumTerms(m, args, f, LoopOf(p).terms, i, j, 1))

\* the arguments of the recursive call of section k of frame f
SectionArgs(args, f, k) ==
    [a |-> Local(args, f, Sections[k][1]),
     b |-> Local(args, f, Sections[k][2]),
     c |-> Local(args, f, Sections[k][3]),
     size |-> args.size \div 2,
     level |-> args.level + 1]

\* a call of P_Strassen that does not partition: the base case, or the
\* fallback to Multiplication for an odd size or beyond the level limit
Leaf(m, args) ==
    IF args.size = 1
    THEN LET c00 == Index(args.c, 0, 0)
             a00 == Index(args.a, 0, 0)
             b00 == Index(args.b, 0, 0)
         IN  Store(m, c00, {a00, b00}, Load(m, a00) * Load(m, b00))
    ELSE Multiplication(m, args.a, args.b, args.c, args.size)

(***************************************************************************)
(* Storage.  "new T[r*c]" leaves the elements uninitialized: they hold     *)
(* whatever the pattern junk puts there, and are not in init.              *)
(***************************************************************************)
JunkVal(pattern, addr) == ((pattern * 37 + addr[3] * 11 + 5) % 23) - 11

\* the addresses of the buffer of an r x c matrix id
Cells(id, r, c) == {Addr(id, k) : k \in 0 .. r * c - 1}

\* the constructors of s1 .. s10, p1 .. p7 of frame f
Alloc(m, f, h) ==
    LET new == UNION {Cells(<<f, name>>, h, h) : name \in TempNames}
    IN  [m EXCEPT !.heap = [x \in new |-> JunkVal(junk, x)] @@ @]

\* destructors that also destroy the temporaries of frame 0, the caller
Free_Caller(m, f) ==
    LET live == {x \in DOMAIN m.heap : x[1] \notin {f, 0}}
    IN  [m EXCEPT !.heap = [x \in live |-> m.heap[x]],
                  !.init = {x \in m.init : x[1] \notin {f, 0}}]

\* their destructors, when frame f returns
Free(m, f) ==
    LET live == {x \in DOMAIN m.heap : x[1] # f}
    IN  [m EXCEPT !.heap = [x \in live |-> m.heap[x]],
                  !.init = {x \in m.init : x[1] # f}]

(***************************************************************************)
(* main: the matrices A, B, C and the views of them.                       *)
(***************************************************************************)
MainFrame == -1
A == Matrix(<<MainFrame, "A">>, N, N)
B == Matrix(<<MainFrame, "B">>, N, N)
C == Matrix(<<MainFrame, "C">>, N, N)
view_A == Matrix_makeView(A, 0, 0, N, N)
view_B == Matrix_makeView(B, 0, 0, N, N)
view_C == Matrix_makeView(C, 0, 0, N, N)

\* rand(): the n-th draw since srand(seed), as a fixed pseudo-random
\* sequence per seed
RandAt(seed, n) ==
    (n * n * 7919 + n * (seed + 1) * 104729 + seed * 31 + 74) % 32768

\* (rand() % 201) - 100
RandValue(seed, n) == (RandAt(seed, n) % RandModulus) - RandShift

\* the storage after main filled A and B: A(i, j) takes the odd draws and
\* B(i, j) the even ones, cell by cell; C is uninitialized
MainHeap(n, seed, pattern) ==
    [x \in Cells(<<MainFrame, "A">>, n, n) |-> RandValue(seed, 2 * x[3] + 1)]
    @@ [x \in Cells(<<MainFrame, "B">>, n, n) |-> RandValue(seed, 2 * x[3] + 2)]
    @@ [x \in Cells(<<MainFrame, "C">>, n, n) |-> JunkVal(pattern, x)]

\* the arguments of the call main makes: line 49
MainArgs == [a |-> view_A, b |-> view_B, c |-> view_C, size |-> N, level |-> level]

\* the arguments of the call of frame 0
RootArgs == mulArgs

\* the arguments of the invocation of frame f
Args(f) == IF f = 0 THEN RootArgs ELSE SectionArgs(RootArgs, 0, f)

\* size / 2 of frame f
Half(f) == Args(f).size \div 2

\* the elements of C, as main prints them
Contents(h) == [k \in 0 .. N * N - 1 |-> h[Addr(C.id, k)]]


(***************************************************************************)
(* Spec: main().  The state after line 45: A and B filled from rand(), C   *)
(* uninitialized, the three full-extent views made.  main calls P_Strassen *)
(* with level 0; the runs with level 1 and 2 are its call made as          *)
(* P_Strassen makes it on itself.                                          *)
(***************************************************************************)
NoFrames == [f \in Frames |-> 0]
NoIters == [f \in Frames |-> {}]
NoSections == [f \in Frames |-> [k \in 1 .. 7 |-> "todo"]]

\* the variables SpecView alone uses
NoOutcome == [kind |-> "none"]
ViewIdle == views = <<>> /\ last = NoOutcome

\* the levels an invocation can have
Levels == 0 .. MaxLevel + 2
NoCalls == [l \in Levels |-> 0]

Init ==
    /\ N \in 0 .. MaxN
    /\ level \in 0 .. MaxLevel
    /\ calls = NoCalls
    /\ pc = "call_strassen"
    /\ junk \in 0 .. MaxInput
    /\ heap = MainHeap(N, junk, junk)
    /\ init = Cells(A.id, N, N) \cup Cells(B.id, N, N)
    /\ phase = NoFrames
    /\ iter = NoIters
    /\ sect = NoSections
    /\ err = "none"
    /\ uninitRead = FALSE
    /\ mulPos = 0
    /\ mulArgs = MainArgs
    /\ cStrassen = <<>>
    /\ ViewIdle

CurMem == Mem(heap, init, err, uninitRead)

\* the storage becomes that of m; an exception nobody catches ends the program
SetMem(m, nextpc) ==
    /\ heap' = m.heap
    /\ init' = m.init
    /\ err' = m.err
    /\ uninitRead' = m.uninitRead
    /\ pc' = IF m.err # "none" THEN "terminated" ELSE nextpc

\* a team that never hands out the seventh section
InFlight_WithoutLast(f) ==
    {k \in 1 .. 6 :
        /\ sect[f][k] # "done"
        /\ Cardinality({k2 \in 1 .. k - 1 : sect[f][k2] # "done"}) < NumThreads}

\* the sections of frame f in flight: the team hands the sections out in
\* order, one to each thread that is not running one, so the NumThreads
\* lowest sections that are not done are the ones being run
InFlight(f) ==
    {k \in 1 .. 7 :
        /\ sect[f][k] # "done"
        /\ Cardinality({k2 \in 1 .. k - 1 : sect[f][k2] # "done"}) < NumThreads}

\* a thread of the team of frame f starts on section k
CanStart(f, k) ==
    /\ pc = "in_strassen"
    /\ phase[f] = SectionsPhase
    /\ sect[f][k] = "todo"
    /\ k \in InFlight(f)

\* main line 49 when P_Strassen does not partition (N = 1, N odd)
RootLeaf ==
    /\ pc = "call_strassen"
    /\ Kind(RootArgs) # "recursive"
    /\ LET m == Leaf(CurMem, RootArgs)
       IN  /\ SetMem(m, "call_mult")
           /\ cStrassen' = Contents(m.heap)
    /\ calls' = [calls EXCEPT ![RootArgs.level] = @ + 1]
    /\ UNCHANGED <<N, level, junk, phase, iter, sect, mulPos, mulArgs, views, last>>

\* an invocation that partitions starts: lines 175-206, the quadrant views
\* and the temporaries.  Frame 0 is called by main, frame f >= 1 by the
\* thread that takes section f of frame 0.
Enter(f) ==
    /\ IF f = 0 THEN pc = "call_strassen" ELSE CanStart(0, f)
    /\ Kind(Args(f)) = "recursive"
    /\ LET bad == {n \in QuadrantNames \cup TempNames : IsError(Local(Args(f), f, n))}
           m == IF bad # {} THEN [CurMem EXCEPT !.err = "IllegalViewSize"]
                ELSE Alloc(CurMem, f, Half(f))
       IN  SetMem(m, "in_strassen")
    /\ phase' = [phase EXCEPT ![f] = IF Half(f) = 0 THEN SectionsPhase ELSE 1]
    /\ iter' = [iter EXCEPT ![f] = {}]
    /\ sect' = [g \in Frames |->
                  IF g = f THEN [k \in 1 .. 7 |-> "todo"]
                  ELSE IF g = 0 /\ f # 0 THEN [sect[0] EXCEPT ![f] = "run"]
                  ELSE sect[g]]
    /\ calls' = [calls EXCEPT ![Args(f).level] = @ + 1]
    /\ UNCHANGED <<N, level, junk, mulPos, mulArgs, cStrassen, views, last>>

\* one iteration (i, j) of the parallel loop nest frame f is in; the thread
\* that runs the last one passes the barrier that ends the loop
LoopIteration(f, i, j) ==
    /\ pc = "in_strassen"
    /\ IsLoopPhase(phase[f])
    /\ i < Half(f)
    /\ j < Half(f)
    /\ <<i, j>> \notin iter[f]
    /\ SetMem(LoopBody(CurMem, Args(f), f, phase[f], i, j), "in_strassen")
    /\ IF Cardinality(iter[f]) + 1 = Half(f) * Half(f)
       THEN /\ phase' = [phase EXCEPT ![f] = @ + 1]
            /\ iter' = [iter EXCEPT ![f] = {}]
       ELSE /\ iter' = [iter EXCEPT ![f] = @ \cup {<<i, j>>}]
            /\ UNCHANGED phase
    /\ UNCHANGED <<N, level, calls, junk, sect, mulPos, mulArgs, cStrassen, views, last>>

\* a thread runs section k of frame f, whose call does not partition, to
\* its end
RunLeaf(f, k) ==
    /\ CanStart(f, k)
    /\ Kind(SectionArgs(Args(f), f, k)) # "recursive"
    /\ SetMem(Leaf(CurMem, SectionArgs(Args(f), f, k)), "in_strassen")
    /\ sect' = [sect EXCEPT ![f][k] = "done"]
    /\ calls' = [calls EXCEPT ![Args(f).level + 1] = @ + 1]
    /\ UNCHANGED <<N, level, junk, phase, iter, mulPos, mulArgs, cStrassen, views, last>>

\* a barrier that lets the threads go on once one section is done
AllReturned_AnyOne(f) == \E k \in 1 .. 7 : sect[f][k] = "done"

\* the implicit barrier at the end of the parallel sections region: every
\* section has been run to its end
AllReturned(f) == \A k \in 1 .. 7 : sect[f][k] = "done"

\* the barrier that ends the parallel sections region
SectionsJoin(f) ==
    /\ pc = "in_strassen"
    /\ phase[f] = SectionsPhase
    /\ AllReturned(f)
    /\ phase' = [phase EXCEPT ![f] = IF Half(f) = 0 THEN ReturnPhase
                                     ELSE SectionsPhase + 1]
    /\ UNCHANGED <<N, level, calls, pc, heap, init, junk, iter, sect, err, uninitRead,
                   mulPos, mulArgs, cStrassen, views, last>>

\* the invocation of frame f returns: its temporaries are destroyed
Return(f) ==
    /\ pc = "in_strassen"
    /\ phase[f] = ReturnPhase
    /\ LET m == Free(CurMem, f)
       IN  /\ SetMem(m, IF f = 0 THEN "call_mult" ELSE "in_strassen")
           /\ cStrassen' = IF f = 0 THEN Contents(m.heap) ELSE cStrassen
    /\ phase' = [phase EXCEPT ![f] = 0]
    /\ sect' = IF f = 0 THEN sect ELSE [sect EXCEPT ![0][f] = "done"]
    /\ UNCHANGED <<N, level, calls, junk, iter, mulPos, mulArgs, views, last>>

\* main line 65
MultiplicationCall ==
    /\ pc = "call_mult"
    /\ pc' = "in_mult"
    /\ mulArgs' = [mulArgs EXCEPT !.level = 0]
    /\ mulPos' = 0
    /\ UNCHANGED <<N, level, calls, heap, init, junk, phase, iter, sect, err, uninitRead,
                   cStrassen, views, last>>

\* one pass of the body of Multiplication's j loop
MultiplicationCell ==
    /\ pc = "in_mult"
    /\ mulPos < mulArgs.size * mulArgs.size
    /\ SetMem(MulCell(CurMem, mulArgs.a, mulArgs.b, mulArgs.c, mulArgs.size,
                      mulPos \div mulArgs.size, mulPos % mulArgs.size),
              "in_mult")
    /\ mulPos' = mulPos + 1
    /\ UNCHANGED <<N, level, calls, junk, phase, iter, sect, mulArgs, cStrassen, views, last>>

\* Multiplication returns
MultiplicationReturn ==
    /\ pc = "in_mult"
    /\ mulPos = mulArgs.size * mulArgs.size
    /\ pc' = "done"
    /\ UNCHANGED <<N, level, calls, heap, init, junk, phase, iter, sect, err, uninitRead,
                   mulPos, mulArgs, cStrassen, views, last>>

Next ==
    \/ RootLeaf
    \/ \E f \in Frames : Enter(f)
    \/ \E f \in Frames, i, j \in 0 .. (N \div 2) - 1 : LoopIteration(f, i, j)
    \/ \E f \in Frames, k \in 1 .. 7 : RunLeaf(f, k)
    \/ \E f \in Frames : SectionsJoin(f)
    \/ \E f \in Frames : Return(f)
    \/ MultiplicationCall
    \/ MultiplicationCell
    \/ MultiplicationReturn

Spec == Init /\ [][Next]_vars

\* C1: when main has run P_Strassen(view_A, view_B, view_C, N, 0) and then
\* Multiplication(view_A, view_B, view_C, N) on the same A and B, neither
\* threw and the elements P_Strassen left in C are, one by one, the elements
\* Multiplication left in C, whichever way the parallel regions were run.
C1_StrassenEqualsMultiplication ==
    pc = "done" => err = "none" /\ cStrassen = Contents(heap)

\* a run on 4 x 4 matrices, where both levels partition, has ended with a
\* product that is not zero everywhere
C1_Witness ==
    /\ pc = "done"
    /\ N = 4
    /\ level = 0
    /\ cStrassen = Contents(heap)
    /\ \E k \in 0 .. N * N - 1 : cStrassen[k] # 0

(***************************************************************************)
(* SpecMul: Multiplication(a, b, c, size) called on size x size windows of *)
(* A, B and C, with C holding whatever it held before.                     *)
(***************************************************************************)
InitMul ==
    /\ N \in 1 .. MaxN
    /\ level = 0
    /\ calls = NoCalls
    /\ pc = "in_mult"
    /\ junk \in 0 .. MaxInput
    /\ heap = MainHeap(N, junk, junk)
    /\ init = Cells(A.id, N, N) \cup Cells(B.id, N, N)
    /\ phase = NoFrames
    /\ iter = NoIters
    /\ sect = NoSections
    /\ err = "none"
    /\ uninitRead = FALSE
    /\ mulPos = 0
    /\ \E size \in 1 .. N : \E r, c \in 0 .. N - size :
          mulArgs = [a |-> Matrix_makeView(A, r, c, size, size),
                     b |-> Matrix_makeView(B, c, r, size, size),
                     c |-> Matrix_makeView(C, r, c, size, size),
                     size |-> size, level |-> 0]
    /\ cStrassen = <<>>
    /\ ViewIdle

NextMul ==
    \/ MultiplicationCell
    \/ MultiplicationReturn

SpecMul == InitMul /\ [][NextMul]_vars

RECURSIVE DotProduct(_, _, _, _, _, _, _)
\* a(i, k) * b(k, j) summed over k in from .. size - 1, on the values of h
DotProduct(h, a, b, size, i, j, from) ==
    IF from >= size THEN 0
    ELSE h[Index(a, i, from).addr] * h[Index(b, from, j).addr]
         + DotProduct(h, a, b, size, i, j, from + 1)

\* C5: the cells Multiplication(a, b, c, size) has done hold the sum over k
\* of a(i, k) * b(k, j), whatever c held before, and no cell of c was read
\* before the call wrote it.
C5_MultiplicationOverwrites ==
    /\ ~uninitRead
    /\ err = "none"
    /\ \A pos \in 0 .. mulPos - 1 :
          LET i == pos \div mulArgs.size
              j == pos % mulArgs.size
          IN  heap[Index(mulArgs.c, i, j).addr]
                = DotProduct(heap, mulArgs.a, mulArgs.b, mulArgs.size, i, j, 0)

\* a call on a 3 x 3 window that is not at C's origin has returned, and an
\* element it wrote differs from what that element held before
C5_Witness ==
    /\ pc = "done"
    /\ mulArgs.size = 3
    /\ mulArgs.c.rowOffset = 1
    /\ \E x \in Cells(C.id, N, N) : x \in init /\ heap[x] # JunkVal(junk, x)


(***************************************************************************)
(* P_Strassen run by one thread: every parallel loop in the order of its   *)
(* indices, the sections one after the other.                              *)
(***************************************************************************)
RECURSIVE SeqLoop(_, _, _, _, _)
\* the loop of phase p of frame f from iteration n = i * h + j on
SeqLoop(m, args, f, p, n) ==
    LET h == args.size \div 2
    IN  IF m.err # "none" \/ n >= h * h THEN m
        ELSE SeqLoop(LoopBody(m, args, f, p, n \div h, n % h), args, f, p, n + 1)

RECURSIVE SeqStrassen(_, _, _)
RECURSIVE SeqSections(_, _, _, _)
\* the sections of frame f from section k on; the call of section k of
\* frame 0 is frame k
SeqSections(m, args, f, k) ==
    IF m.err # "none" \/ k > 7 THEN m
    ELSE SeqSections(SeqStrassen(m, SectionArgs(args, f, k), k), args, f, k + 1)

RECURSIVE SeqPhases(_, _, _, _)
\* the regions of frame f from phase p on
SeqPhases(m, args, f, p) ==
    IF m.err # "none" \/ p >= ReturnPhase THEN m
    ELSE SeqPhases(IF p = SectionsPhase THEN SeqSections(m, args, f, 1)
                   ELSE SeqLoop(m, args, f, p, 0),
                   args, f, p + 1)

\* P_Strassen(a, b, c, size, level) as frame f
SeqStrassen(m, args, f) ==
    IF Kind(args) # "recursive" THEN Leaf(m, args)
    ELSE Free(SeqPhases(Alloc(m, f, args.size \div 2), args, f, 1), f)

\* the storage main starts P_Strassen on
StartMem == Mem(MainHeap(N, junk, junk), Cells(A.id, N, N) \cup Cells(B.id, N, N),
                "none", FALSE)

\* C2: for each input, whichever way the threads of the parallel loops and
\* of the parallel sections (of the call at level 0 and of its calls at
\* level 1) were interleaved, P_Strassen leaves in C the very contents a
\* run by one thread leaves there: one result per input.
C2_Deterministic ==
    pc = "call_mult" =>
        /\ err = "none"
        /\ cStrassen = Contents(SeqStrassen(StartMem, RootArgs, 0).heap)

\* P_Strassen has returned on 4 x 4 matrices, where the call at level 0 and
\* its calls at level 1 partition, with the result of the run by one thread
C2_Witness ==
    /\ pc = "call_mult"
    /\ N = 4
    /\ level = 0
    /\ cStrassen = Contents(SeqStrassen(StartMem, RootArgs, 0).heap)
    /\ \E k \in 0 .. N * N - 1 : cStrassen[k] # 0

(***************************************************************************)
(* The elements a branch reads and writes.                                 *)
(***************************************************************************)
\* the addresses of the elements (0 .. size-1, 0 .. size-1) of the view v
Window(v, size) ==
    {x.addr : x \in {y \in {Index(v, i, j) : i, j \in 0 .. size - 1} : ~IsError(y)}}

\* the elements of c of the invocation of frame f
CWindow(f) == Window(Args(f).c, Args(f).size)

\* the frames that are running an invocation that partitions
Active == {f \in Frames : pc = "in_strassen" /\ phase[f] # 0}

\* C3: while an invocation that partitions is running, no element of its
\* c (of c11, c12, c21, c22) has been written unless all seven of its
\* recursive calls have returned.
C3_JoinBeforeCombination ==
    \A f \in Active : CWindow(f) \cap init # {} => \A k \in 1 .. 7 : sect[f][k] = "done"

\* a call at level 1 has written its c11 while the call at level 0 is still
\* in its parallel sections
C3_Witness ==
    /\ N = 4
    /\ pc = "in_strassen"
    /\ phase[0] = SectionsPhase
    /\ \E f \in 1 .. 7 :
          /\ phase[f] = SectionsPhase + 2
          /\ CWindow(f) \cap init # {}
          /\ \A k \in 1 .. 7 : sect[f][k] = "done"

\* The branches running concurrently: <<"iter", f, i, j>> is the iteration
\* (i, j) not yet run of the loop frame f is in, <<"sect", f, k, 0>> the call
\* of section k of frame f, in flight and not partitioning (the branches of
\* a call that partitions are those of its frame).
Branches ==
    {<<"iter", f, i, j>> : f \in {g \in Active : IsLoopPhase(phase[g])},
                           i \in 0 .. (N \div 2) - 1, j \in 0 .. (N \div 2) - 1}
    \cup {<<"sect", f, k, 0>> : f \in {g \in Active : phase[g] = SectionsPhase},
                                k \in 1 .. 7}

Running(t) ==
    IF t[1] = "iter"
    THEN t[3] < Half(t[2]) /\ t[4] < Half(t[2]) /\ <<t[3], t[4]>> \notin iter[t[2]]
    ELSE /\ t[3] \in InFlight(t[2])
         /\ Kind(SectionArgs(Args(t[2]), t[2], t[3])) # "recursive"

AddrsOf(refs) == {x.addr : x \in {y \in refs : ~IsError(y)}}

\* the elements the branch t writes
Writes(t) ==
    IF t[1] = "iter"
    THEN AddrsOf({LoopTarget(Args(t[2]), t[2], phase[t[2]], t[3], t[4])})
    ELSE LET call == SectionArgs(Args(t[2]), t[2], t[3])
         IN  Window(call.c, call.size)

\* the elements the branch t reads
Reads(t) ==
    IF t[1] = "iter"
    THEN AddrsOf(LoopSources(Args(t[2]), t[2], phase[t[2]], t[3], t[4]))
    ELSE LET call == SectionArgs(Args(t[2]), t[2], t[3])
         IN  Window(call.a, call.size) \cup Window(call.b, call.size)

\* the elements the call of section k of frame f writes, and those it
\* reads, from its start to its return: its c, its a and b, and, when
\* it partitions, the temporaries of its frame
CallWrites(f, k) ==
    LET call == SectionArgs(Args(f), f, k)
    IN  Window(call.c, call.size)
        \cup (IF Kind(call) = "recursive"
              THEN UNION {Cells(<<k, name>>, call.size \div 2, call.size \div 2) :
                             name \in TempNames}
              ELSE {})

CallReads(f, k) ==
    LET call == SectionArgs(Args(f), f, k)
    IN  Window(call.a, call.size) \cup Window(call.b, call.size)

\* the branches that are running, each with what it writes and what it reads
Footprints == {<<t, Writes(t), Reads(t)>> : t \in {x \in Branches : Running(x)}}

\* the seven calls of the parallel sections region frame f is entering,
\* each with what it writes and what it reads
CallFootprints(f) == {<<k, CallWrites(f, k), CallReads(f, k)>> : k \in 1 .. 7}

\* no member of the set F writes what another member writes or reads
Disjoint(F) == \A t, u \in F : t[1] # u[1] => t[2] \cap (u[2] \cup u[3]) = {}

\* C4: no two branches running concurrently write the same element, and
\* none writes an element another one reads; and the seven calls of a
\* parallel sections region, which may all run at once, write only their own
\* p_k and temporaries: nothing another of them writes or reads.
C4_NoRace ==
    /\ Disjoint(Footprints)
    /\ \A f \in Active :
          (phase[f] = SectionsPhase /\ \A k \in 1 .. 7 : sect[f][k] = "todo")
          => Disjoint(CallFootprints(f))

\* two calls at level 1 are each in an elementwise loop at the same time
C4_Witness ==
    \E t, u \in {x \in Branches : Running(x)} :
       /\ t[1] = "iter" /\ u[1] = "iter"
       /\ t[2] # u[2]
       /\ Writes(t) # {} /\ Writes(u) # {}

\* C6: no element is read before it was written, so what C and the
\* temporaries held when they were allocated reaches no result; once the
\* sections of an invocation are over every element of its p1 .. p7 has been
\* written, each by the time its call returned; when an invocation is about
\* to return every element of its c has been written; and when the call
\* main made has returned every C(i, j) has been written and holds the sum
\* over k of A(i, k) * B(k, j).
C6_OutputFullyWritten ==
    /\ ~uninitRead
    /\ \A f \in Active :
          /\ \A k \in 1 .. 7 :
                (sect[f][k] = "done" \/ phase[f] > SectionsPhase)
                => LET call == SectionArgs(Args(f), f, k)
                   IN  Window(call.c, call.size) \subseteq init
          /\ phase[f] = ReturnPhase => CWindow(f) \subseteq init
    /\ pc = "call_mult" =>
          /\ Cells(C.id, N, N) \subseteq init
          /\ \A i, j \in 0 .. N - 1 :
                cStrassen[i * N + j] = DotProduct(heap, view_A, view_B, N, i, j, 0)

\* P_Strassen called with level 1 has returned on 4 x 4 matrices, its calls
\* with level 2 falling back to Multiplication, with an element of C that
\* differs from what it held before
C6_Witness ==
    /\ pc = "call_mult"
    /\ N = 4
    /\ level = 1
    /\ Cells(C.id, N, N) \subseteq init
    /\ \E x \in Cells(C.id, N, N) : heap[x] # JunkVal(junk, x)


\* C12: in a run of P_Strassen on views of extent size x size, at every
\* level and in every thread, no makeView is refused and no element access
\* is out of bounds: neither IllegalViewSize nor BadArrayAccess is raised,
\* and the program is not ended by an exception.
C12_NoIllegalViewOrAccess ==
    /\ err \notin {"IllegalViewSize", "BadArrayAccess"}
    /\ pc # "terminated"
    /\ \A f \in Active : phase[f] = SectionsPhase =>
          \A n \in QuadrantNames \cup TempNames : ~IsError(Local(Args(f), f, n))

\* a call at level 1 has made its views, run its loops and its sections and
\* is in its combination loops, inside the parallel sections of level 0
C12_Witness ==
    /\ N = 4
    /\ level = 0
    /\ pc = "in_strassen"
    /\ phase[0] = SectionsPhase
    /\ \E f \in 1 .. 7 : phase[f] > SectionsPhase
    /\ err = "none"


\* the invocation main makes has not returned yet
InStrassen == pc \in {"call_strassen", "in_strassen"}

\* C13: no invocation of P_Strassen has a level above 2; an invocation that
\* partitions has level 0 or 1 and an even size other than 1 (size 0
\* included), and each of its seven calls gets level + 1 and size / 2; an
\* invocation with level > 1 and size > 1 takes a fallback to Multiplication
\* and calls nothing; a run started at level 0 makes at most 7 invocations
\* at level 1 and at most 49 at level 2.
C13_DepthBounded ==
    /\ \A l \in Levels : l > MaxLevel => calls[l] = 0
    /\ level = 0 => calls[0] <= 1 /\ calls[1] <= 7 /\ calls[2] <= 49
    /\ InStrassen /\ RootArgs.level > 1 /\ RootArgs.size > 1
          => Kind(RootArgs) \in {"odd", "depth"}
    /\ \A f \in Active :
          LET args == Args(f)
          IN  /\ args.level \in {0, 1}
              /\ args.size % 2 = 0
              /\ args.size # 1
              /\ \A k \in 1 .. 7 :
                    LET sub == SectionArgs(args, f, k)
                    IN  /\ sub.level = args.level + 1
                        /\ sub.size = args.size \div 2
                        /\ sub.level > 1 => Kind(sub) # "recursive"
                        /\ sub.level > 1 /\ sub.size > 1
                              => Kind(sub) \in {"odd", "depth"}

\* a run started at level 0 has made its 7 calls at level 1 and its 49
\* calls at level 2, with size 0 all the way down
C13_Witness ==
    /\ N = 0
    /\ level = 0
    /\ pc = "call_mult"
    /\ calls[0] = 1
    /\ calls[1] = 7
    /\ calls[2] = 49

\* only invocations with level 0 or 1 and an even size above 1 partition
C13_PartitionOnlyAboveOne ==
    \A f \in Active :
        /\ Args(f).level \in {0, 1}
        /\ Args(f).size % 2 = 0
        /\ Args(f).size > 1


\* the invocation main makes was the only one
OneCall == calls = [NoCalls EXCEPT ![level] = 1]

\* C16: the tests are size == 1, then odd size, then level, and the first
\* two are made at every level.  A call with size 1, at level 0, 1 or 2,
\* changes c(0, 0) to a(0, 0) * b(0, 0) and nothing else; a call with odd
\* size > 1, also at level 0 or 1, leaves what Multiplication leaves, never
\* partitions, creates no temporary and calls nothing; a call with size 6
\* at level 0 makes seven calls at level 1 and none at level 2, none of the
\* seven partitions, and each leaves in its p the naive product of its a
\* and b of size 3.
C16_CaseOrder ==
    /\ N % 2 = 1 =>
          /\ pc # "in_strassen"
          /\ DOMAIN heap = DOMAIN StartMem.heap
          /\ pc = "call_mult" => OneCall /\ err = "none"
    /\ N = 1 /\ pc = "call_mult" =>
          heap = [StartMem.heap EXCEPT ![Addr(C.id, 0)] =
                     StartMem.heap[Addr(A.id, 0)] * StartMem.heap[Addr(B.id, 0)]]
    /\ N % 2 = 1 /\ N > 1 /\ pc = "call_mult" =>
          heap = Multiplication(StartMem, view_A, view_B, view_C, N).heap
    /\ N = 6 /\ level = 0 =>
          /\ calls[2] = 0
          /\ \A f \in 1 .. 7 : phase[f] = 0
          /\ pc = "call_mult" => calls[0] = 1 /\ calls[1] = 7
          /\ pc = "in_strassen" /\ phase[0] = SectionsPhase =>
                /\ calls[1] = Cardinality({k \in 1 .. 7 : sect[0][k] = "done"})
                /\ \A k \in 1 .. 7 : sect[0][k] = "done" =>
                      LET sub == SectionArgs(RootArgs, 0, k)
                      IN  /\ sub.size = 3
                          /\ Multiplication(CurMem, sub.a, sub.b, sub.c, 3).heap = heap

\* the call with size 6 at level 0 has made its seven calls, each a naive
\* product of size 3, and is at the barrier of its sections
C16_Witness ==
    /\ N = 6
    /\ level = 0
    /\ pc = "in_strassen"
    /\ phase[0] = SectionsPhase
    /\ AllReturned(0)
    /\ calls[1] = 7


RECURSIVE MatrixOf(_)
\* the Matrix at the end of the chain of bases of surface s
MatrixOf(s) == IF s.kind = "Matrix" THEN s ELSE MatrixOf(s.base)

\* the views of the invocation of frame f: its a, b, c, its quadrant views
\* and the elements of its vectors s and p
ViewsOf(f) ==
    LET args == Args(f)
    IN  {args.a, args.b, args.c}
        \cup {Local(args, f, n) : n \in QuadrantNames \cup TempNames}

\* the number of elements allocated: A, B and C, and the seventeen
\* temporaries of every invocation that has not returned
Allocated == 3 * N * N + 17 * (Half(0) * Half(0) * Cardinality(Active \cap {0})
                               + Half(1) * Half(1) * Cardinality(Active \ {0}))

\* C17: whenever an element is accessed through a view, the storage it
\* reaches exists (no access ever finds it gone): every view of an
\* invocation that has not returned ends, base by base, in a Matrix of main
\* or of an invocation that has not returned either; the elements of every
\* such Matrix are allocated; a call made by a section runs only while its
\* caller waits in its sections region; and once an invocation has returned
\* none of its temporaries is left.
C17_ViewsOutlived ==
    /\ err # "DeadStorage"
    /\ \A f \in 1 .. 7 :
          phase[f] # 0 => pc = "in_strassen" /\ phase[0] = SectionsPhase /\ sect[0][f] = "run"
    /\ \A x \in DOMAIN heap :
          x[1] = MainFrame \/ (pc = "in_strassen" /\ phase[x[1]] # 0)
    /\ pc = "in_strassen" => Cardinality(DOMAIN heap) = Allocated
    /\ \A f \in Active : \A v \in ViewsOf(f) :
          /\ ~IsError(v)
          /\ MatrixOf(v).id[1] \in Active \cup {MainFrame}

\* a call at level 1 is in its loops, reading through views based on the
\* views of the call at level 0, while another has returned and its
\* temporaries are gone
C17_Witness ==
    /\ N = 4
    /\ level = 0
    /\ pc = "in_strassen"
    /\ \E f, g \in 1 .. 7 :
          /\ IsLoopPhase(phase[f])
          /\ sect[0][g] = "done"
          /\ \A x \in DOMAIN heap : x[1] # g
          /\ \E x \in DOMAIN heap : x[1] = f


\* the elements of s1 .. s10 of frame f
SCells(f) ==
    UNION {Cells(<<f, SLoops[n].dst>>, Half(f), Half(f)) : n \in 1 .. Len(SLoops)}

\* C18: in an invocation that partitions, none of the seven calls starts
\* before the ten loops are over, and from then on every element of s1 ..
\* s10 has been written; no call, and nothing else, has read an element
\* that was not written.
C18_TemporariesWrittenFirst ==
    /\ ~uninitRead
    /\ \A f \in Active :
          /\ phase[f] < SectionsPhase => \A k \in 1 .. 7 : sect[f][k] = "todo"
          /\ (phase[f] >= SectionsPhase \/ \E k \in 1 .. 7 : sect[f][k] # "todo")
                => SCells(f) \subseteq init
    /\ \A f \in 1 .. 7 : phase[f] # 0 => SCells(0) \subseteq init

\* a call at level 1 whose s1 .. s10 hold four elements in all each has run
\* one of its seven calls and not yet another
C18_Witness ==
    /\ N = 4
    /\ level = 0
    /\ pc = "in_strassen"
    /\ \E f \in 1 .. 7 :
          /\ phase[f] = SectionsPhase
          /\ sect[f][1] = "done"
          /\ sect[f][7] = "todo"
          /\ SCells(f) # {}
          /\ SCells(f) \subseteq init


(***************************************************************************)
(* SpecFair: main() with threads that go on.  A thread of a team that can  *)
(* take a step is not held up forever: as long as some iteration, section, *)
(* barrier or return is possible, one of them happens.                     *)
(***************************************************************************)
\* the enabling condition of Next, from the guards of its actions: some
\* thread has a step to take
Ready ==
    \/ pc \in {"call_strassen", "call_mult", "in_mult"}
    \/ /\ pc = "in_strassen"
       /\ \E f \in Frames :
             \/ IsLoopPhase(phase[f])
             \/ phase[f] = ReturnPhase
             \/ /\ phase[f] = SectionsPhase
                /\ \/ AllReturned(f)
                   \/ \E k \in 1 .. 7 :
                         /\ CanStart(f, k)
                         /\ f = 0 \/ Kind(SectionArgs(Args(f), f, k)) # "recursive"

\* weak fairness of Next, WF_vars(Next), with its enabling condition written
\* out: a run does not stay forever in states where a step is possible
\* without taking one
Fairness == []<>(~Ready) \/ []<><<Next>>_vars

\* the runs of main on one filling of the matrices: no test of P_Strassen
\* or of a loop looks at an element
InitFair ==
    /\ Init
    /\ junk = 0

SpecFair == InitFair /\ [][Next]_vars /\ Fairness

\* C14: the invocation P_Strassen(view_A, view_B, view_C, N, level) main
\* makes returns, for every N >= 0 (N = 0 included, which partitions with
\* size / 2 = 0): every parallel loop and every sections region reaches its
\* barrier and control comes back to main, at line 65; until the program
\* ends there is always a thread with a step to take.
C14_Returns ==
    /\ [](Ready \/ pc \in {"done", "terminated"})
    /\ <>(pc = "call_mult")

\* the call with size 0 at level 0 has returned, after its 7 + 49 calls
C14_Witness ==
    /\ N = 0
    /\ level = 0
    /\ pc = "call_mult"
    /\ calls[2] = 49
    /\ phase = NoFrames


(***************************************************************************)
(* SpecProd: main() on chosen matrices.  A and B are each the identity,    *)
(* all zero, or drawn from rand() as main draws them, and one of them at   *)
(* least is the identity or zero.  P_Strassen is run by one thread, then   *)
(* Multiplication.                                                         *)
(***************************************************************************)
Fills == {"rand", "identity", "zero"}

\* the element at position idx of an n x n matrix filled in the given way
FillValue(fill, seed, n, idx, draw) ==
    CASE fill = "rand" -> RandValue(seed, draw)
      [] fill = "identity" -> IF idx \div n = idx % n THEN 1 ELSE 0
      [] OTHER -> 0

\* the storage after A and B were filled; C is uninitialized
ProdHeap(n, fillA, fillB, seed) ==
    [x \in Cells(<<MainFrame, "A">>, n, n) |-> FillValue(fillA, seed, n, x[3], 2 * x[3] + 1)]
    @@ [x \in Cells(<<MainFrame, "B">>, n, n) |-> FillValue(fillB, seed, n, x[3], 2 * x[3] + 2)]
    @@ [x \in Cells(<<MainFrame, "C">>, n, n) |-> JunkVal(seed, x)]

InitProd ==
    /\ N \in 1 .. MaxN
    /\ level = 0
    /\ calls = NoCalls
    /\ pc = "call_strassen"
    /\ junk \in 0 .. MaxInput
    /\ \E fillA, fillB \in Fills :
          /\ {fillA, fillB} \cap {"identity", "zero"} # {}
          /\ heap = ProdHeap(N, fillA, fillB, junk)
    /\ init = Cells(A.id, N, N) \cup Cells(B.id, N, N)
    /\ phase = NoFrames
    /\ iter = NoIters
    /\ sect = NoSections
    /\ err = "none"
    /\ uninitRead = FALSE
    /\ mulPos = 0
    /\ mulArgs = MainArgs
    /\ cStrassen = <<>>
    /\ ViewIdle

\* main line 49, run by one thread to its return
StrassenCall ==
    /\ pc = "call_strassen"
    /\ LET m == SeqStrassen(CurMem, RootArgs, 0)
       IN  /\ SetMem(m, "call_mult")
           /\ cStrassen' = Contents(m.heap)
    /\ UNCHANGED <<N, level, calls, junk, phase, iter, sect, mulPos, mulArgs, views, last>>

NextProd ==
    \/ StrassenCall
    \/ MultiplicationCall
    \/ MultiplicationCell
    \/ MultiplicationReturn

SpecProd == InitProd /\ [][NextProd]_vars

\* the elements of A and of B, laid out as Contents lays out C
ContentsA == [k \in 0 .. N * N - 1 |-> heap[Addr(A.id, k)]]
ContentsB == [k \in 0 .. N * N - 1 |-> heap[Addr(B.id, k)]]
IdentityMatrix == [k \in 0 .. N * N - 1 |-> IF k \div N = k % N THEN 1 ELSE 0]
ZeroMatrix == [k \in 0 .. N * N - 1 |-> 0]

\* what the claim says of a product c of the A and B in storage
IdentityAndZeroLaws(c) ==
    /\ ContentsB = IdentityMatrix => c = ContentsA
    /\ ContentsA = IdentityMatrix => c = ContentsB
    /\ ContentsA = ZeroMatrix \/ ContentsB = ZeroMatrix => c = ZeroMatrix

\* C15: for N >= 1, P_Strassen at level 0 and Multiplication both leave A in
\* C when B is the identity, B in C when A is the identity, and zero
\* everywhere in C when A or B is all zero, whatever the other matrix holds.
C15_IdentityAndZero ==
    /\ err = "none"
    /\ pc \in {"call_mult", "in_mult", "done"} => IdentityAndZeroLaws(cStrassen)
    /\ pc = "done" => IdentityAndZeroLaws(Contents(heap))

\* both algorithms have multiplied a 4 x 4 matrix drawn from rand() by the
\* identity and left that matrix in C
C15_Witness ==
    /\ pc = "done"
    /\ N = 4
    /\ ContentsB = IdentityMatrix
    /\ ContentsA \notin {IdentityMatrix, ZeroMatrix}
    /\ cStrassen = ContentsA
    /\ Contents(heap) = ContentsA


(***************************************************************************)
(* SpecCall: P_Strassen(a, b, c, size, level) called as a section calls it *)
(* (level 1 or 2) on size x size windows: a of A, b of B, and c of C or,   *)
(* when the call partitions, of A or of B.  The matrices are size or size  *)
(* + 1 wide, so a window can lie inside its matrix, and c can cover a or b *)
(* wholly or in part.  When c is a window of C, Multiplication(a, b, c,    *)
(* size) is called after it.                                               *)
(***************************************************************************)
MaxCallSize == 4

InitCall ==
    /\ level \in LevelLimit .. MaxLevel
    /\ \E size \in 1 .. MaxCallSize :
          /\ N \in size .. size + 1
          /\ \E r, c, rc, cc \in 0 .. N - size :
             \E on \in IF size % 2 = 0 /\ level <= LevelLimit THEN {A, B, C} ELSE {C} :
                mulArgs = [a |-> Matrix_makeView(A, r, c, size, size),
                           b |-> Matrix_makeView(B, c, r, size, size),
                           c |-> Matrix_makeView(on, rc, cc, size, size),
                           size |-> size, level |-> level]
    /\ calls = NoCalls
    /\ pc = "call_strassen"
    /\ junk \in 0 .. MaxInput
    /\ heap = MainHeap(N, junk, junk)
    /\ init = Cells(A.id, N, N) \cup Cells(B.id, N, N)
    /\ phase = NoFrames
    /\ iter = NoIters
    /\ sect = NoSections
    /\ err = "none"
    /\ uninitRead = FALSE
    /\ mulPos = 0
    /\ cStrassen = <<>>
    /\ ViewIdle

NextCall ==
    \/ RootLeaf
    \/ \E f \in Frames : Enter(f)
    \/ \E f \in Frames, i, j \in 0 .. (N \div 2) - 1 : LoopIteration(f, i, j)
    \/ \E f \in Frames, k \in 1 .. 7 : RunLeaf(f, k)
    \/ \E f \in Frames : SectionsJoin(f)
    \/ \E f \in Frames : Return(f)
    \/ MatrixOf(mulArgs.c) = C /\ MultiplicationCall
    \/ MultiplicationCell
    \/ MultiplicationReturn

SpecCall == InitCall /\ [][NextCall]_vars

\* the storage the call started on
Original == MainHeap(N, junk, junk)

\* the elements of the matrix m that hold what they held when the call started
Kept(m) == {x \in Cells(m.id, N, N) : heap[x] = Original[x]}

\* C19: when c is a window of C, and so shares no storage with a or b,
\* P_Strassen(a, b, c, size, level) and then Multiplication(a, b, c, size)
\* never change an element of A or of B, nor an element of C outside the
\* size x size window of c.
C19_FrameCondition ==
    MatrixOf(mulArgs.c) = C =>
        /\ err = "none"
        /\ Kept(A) = Cells(A.id, N, N)
        /\ Kept(B) = Cells(B.id, N, N)
        /\ Cells(C.id, N, N) \ Window(mulArgs.c, mulArgs.size) \subseteq Kept(C)

\* P_Strassen has partitioned a 4 x 4 window at (1, 1) of the 5 x 5 matrix
\* C and returned, and Multiplication has run on it too: the window changed
CallOnWindow ==
    /\ N = 5
    /\ mulArgs.size = 4
    /\ mulArgs.c.rowOffset = 1
    /\ mulArgs.c.colOffset = 1

C19_Witness ==
    /\ CallOnWindow
    /\ MatrixOf(mulArgs.c) = C
    /\ level = LevelLimit
    /\ pc = "done"
    /\ Window(mulArgs.c, mulArgs.size) \cap Kept(C) = {}

\* the names of the views of p1 .. p7
PNames == {Sections[k][3] : k \in 1 .. 7}

\* C20: in an invocation with even size and level <= 1 the calls of the
\* sections write only p1 .. p7 and the loops that write c read only p1 ..
\* p7; until the sections region is over A, B and C hold what they held at
\* the call; and when the invocation returns c holds the product of what a
\* and b held at the call, also when c is a window of A or of B.
C20_ReadBeforeWrite ==
    /\ pc = "call_mult" =>
          /\ PNames = {"p1", "p2", "p3", "p4", "p5", "p6", "p7"}
          /\ \A n \in 1 .. Len(CLoops) : \A t \in 1 .. Len(CLoops[n].terms) :
                CLoops[n].terms[t][2] \in PNames
    /\ (mulArgs.size % 2 = 0 /\ level <= LevelLimit) =>
          /\ pc = "in_strassen" /\ phase[0] <= SectionsPhase =>
                \A m \in {A, B, C} : Kept(m) = Cells(m.id, N, N)
          /\ pc = "call_mult" =>
                /\ err = "none"
                /\ \A i, j \in 0 .. mulArgs.size - 1 :
                      heap[Index(mulArgs.c, i, j).addr]
                        = DotProduct(Original, mulArgs.a, mulArgs.b, mulArgs.size, i, j, 0)

\* P_Strassen has partitioned and returned with c a 4 x 4 window of A that
\* overlaps a, which is another window of A, and A changed
C20_Witness ==
    /\ CallOnWindow
    /\ MatrixOf(mulArgs.c) = A
    /\ mulArgs.a.rowOffset = 0
    /\ level = LevelLimit
    /\ pc = "call_mult"
    /\ Kept(A) # Cells(A.id, N, N)


(***************************************************************************)
(* SpecView: View objects over two matrices, M1 (1 x 2) and M2 (2 x 2).    *)
(* A View object holds base, a C++ reference: here the name of the object  *)
(* it was bound to when the View was constructed, <<"M", n>> for matrix n  *)
(* or <<"V", n>> for the n-th View object.                                 *)
(***************************************************************************)
M1 == Matrix(<<MainFrame, "M1">>, 1, 2)
M2 == Matrix(<<MainFrame, "M2">>, 2, 2)

Offsets == -1 .. 1
Extents == 1 .. 2
Coords == -1 .. 2

\* the objects there are
Refs == {<<"M", 1>>, <<"M", 2>>} \cup {<<"V", n>> : n \in 1 .. Len(views)}

RECURSIVE Surface(_)
\* the object ref names, with the objects its base chain leads to
Surface(ref) ==
    IF ref[1] = "M" THEN (IF ref[2] = 1 THEN M1 ELSE M2)
    ELSE LET o == views[ref[2]]
         IN  View(Surface(o.base), o.rowOffset, o.colOffset, o.maxRows, o.maxCols)

\* the number of View objects between ref and the Matrix that owns the storage
RECURSIVE Depth(_)
Depth(ref) == IF ref[1] = "M" THEN 0 ELSE 1 + Depth(views[ref[2]].base)

\* a new View object: the fields of the View value v, base bound to ref.
\* origin is "makeView" while the fields are as makeView set them (a copy
\* is as the object it was copied from), "assigned" once operator= has
\* overwritten them.
ViewObject(ref, v, how) ==
    [base |-> ref, rowOffset |-> v.rowOffset, colOffset |-> v.colOffset,
     maxRows |-> v.maxRows, maxCols |-> v.maxCols, origin |-> how]

InitView ==
    /\ N = 0
    /\ level = 0
    /\ calls = NoCalls
    /\ pc = "views"
    /\ junk = 0
    /\ heap = [x \in Cells(M1.id, M1.rows, M1.cols) \cup Cells(M2.id, M2.rows, M2.cols) |-> 0]
    /\ init = DOMAIN heap
    /\ phase = NoFrames
    /\ iter = NoIters
    /\ sect = NoSections
    /\ err = "none"
    /\ uninitRead = FALSE
    /\ mulPos = 0
    /\ mulArgs = <<>>
    /\ cStrassen = <<>>
    /\ ViewIdle

\* what the other specifications use
ViewFrame == UNCHANGED <<N, level, calls, junk, init, phase, iter, sect, uninitRead,
                         mulPos, mulArgs, cStrassen>>

\* makeView on the Matrix or View object ref
makeView(ref, r, c, rows, cols) ==
    IF ref[1] = "M" THEN Matrix_makeView(Surface(ref), r, c, rows, cols)
    ELSE View_makeView(Surface(ref), r, c, rows, cols)

\* View<T> v = ref.makeView(r, c, rows, cols);
MakeView(ref, r, c, rows, cols) ==
    /\ pc = "views"
    /\ Len(views) < MaxViews
    /\ LET v == makeView(ref, r, c, rows, cols)
       IN  IF IsError(v)
           THEN /\ last' = [result |-> v, depth |-> Depth(ref)]
                /\ err' = v.kind
                /\ pc' = "terminated"
                /\ UNCHANGED views
           ELSE /\ views' = Append(views, ViewObject(ref, v, "makeView"))
                /\ UNCHANGED <<last, err, pc>>
    /\ UNCHANGED heap
    /\ ViewFrame

\* View<T> v(w);  the copy constructor
CopyView(w) ==
    /\ pc = "views"
    /\ Len(views) < MaxViews
    /\ views' = Append(views, views[w])
    /\ UNCHANGED <<heap, last, err, pc>>
    /\ ViewFrame

\* what "base = other.base" does to the View object v: base is a reference,
\* so this assigns the Viewable that v.base names, which has no data, and
\* v.base goes on naming the object it was bound to
AssignBase(v, w) == views[v].base

\* v = w;  View<T>::operator=
AssignView(v, w) ==
    /\ pc = "views"
    /\ v # w
    /\ views' = [views EXCEPT ![v] =
                    [base |-> AssignBase(v, w),
                     rowOffset |-> views[w].rowOffset,
                     colOffset |-> views[w].colOffset,
                     maxRows |-> views[w].maxRows,
                     maxCols |-> views[w].maxCols,
                     origin |-> "assigned"]]
    /\ UNCHANGED <<heap, last, err, pc>>
    /\ ViewFrame

\* ref(row, col) = ref(row, col) + 1;  an element read and written through
\* the object ref
Access(ref, row, col) ==
    /\ pc = "views"
    /\ LET x == Index(Surface(ref), row, col)
       IN  /\ last' = [result |-> x, depth |-> Depth(ref)]
           /\ IF IsError(x)
              THEN /\ err' = x.kind
                   /\ pc' = "terminated"
                   /\ UNCHANGED heap
              ELSE /\ heap' = [heap EXCEPT ![x.addr] = @ + 1]
                   /\ pc' = "accessed"
                   /\ UNCHANGED err
    /\ UNCHANGED views
    /\ ViewFrame

NextView ==
    \/ \E ref \in Refs, r, c \in Offsets, rows, cols \in Extents :
          MakeView(ref, r, c, rows, cols)
    \/ \E w \in 1 .. Len(views) : CopyView(w)
    \/ \E v, w \in 1 .. Len(views) : AssignView(v, w)
    \/ \E ref \in Refs, row, col \in Coords : Access(ref, row, col)

SpecView == InitView /\ [][NextView]_vars


(***************************************************************************)
(* Properties of views.                                                    *)
(***************************************************************************)
ViewRefs == {<<"V", n>> : n \in 1 .. Len(views)}

InExtent(ref, row, col) ==
    /\ 0 <= row /\ row < views[ref[2]].maxRows
    /\ 0 <= col /\ col < views[ref[2]].maxCols

RECURSIVE OwnerOf(_)
\* the Matrix at the end of the chain of ref
OwnerOf(ref) == IF ref[1] = "M" THEN Surface(ref) ELSE OwnerOf(views[ref[2]].base)

RECURSIVE MadeByMakeView(_)
\* every View on the chain of ref is as makeView made it
MadeByMakeView(ref) ==
    \/ ref[1] = "M"
    \/ /\ views[ref[2]].origin = "makeView"
       /\ MadeByMakeView(views[ref[2]].base)

RECURSIVE RowOffsets(_)
RowOffsets(ref) ==
    IF ref[1] = "M" THEN 0 ELSE views[ref[2]].rowOffset + RowOffsets(views[ref[2]].base)

RECURSIVE ColOffsets(_)
ColOffsets(ref) ==
    IF ref[1] = "M" THEN 0 ELSE views[ref[2]].colOffset + ColOffsets(views[ref[2]].base)

RECURSIVE WithinEverySurface(_, _, _)
\* (row, col) on ref is inside the extent of ref and, translated, of every
\* surface ref borrows from
WithinEverySurface(ref, row, col) ==
    IF ref[1] = "M"
    THEN LET m == Surface(ref)
         IN  0 <= row /\ row < m.rows /\ 0 <= col /\ col < m.cols
    ELSE /\ InExtent(ref, row, col)
         /\ WithinEverySurface(views[ref[2]].base, row + views[ref[2]].rowOffset,
                               col + views[ref[2]].colOffset)

\* the access changed the element at address x, by one, and nothing else
ChangedOnly(x) ==
    /\ last'.result = [kind |-> "Cell", addr |-> x]
    /\ heap' = [heap EXCEPT ![x] = heap[x] + 1]

\* C7: for V = M.makeView(r, c, h, w) made without error and every (i, j)
\* inside V's extent, an access V(i, j) reads and writes the storage cell
\* of M(i + r, j + c) and changes no other element.
C7_ViewOfMatrix ==
    [][\A ref \in ViewRefs, i, j \in Coords :
          (/\ views[ref[2]].base[1] = "M"
           /\ views[ref[2]].origin = "makeView"
           /\ InExtent(ref, i, j)
           /\ Access(ref, i, j))
          => LET x == MatrixIndex(Surface(views[ref[2]].base),
                                  i + views[ref[2]].rowOffset,
                                  j + views[ref[2]].colOffset)
             IN  x.kind = "Cell" /\ ChangedOnly(x.addr)]_vars

C7_Witness ==
    /\ pc = "accessed"
    /\ Len(views) = 1
    /\ views[1] = ViewObject(<<"M", 2>>, View(M2, 1, 1, 1, 1), "makeView")
    /\ last = [result |-> [kind |-> "Cell", addr |-> Addr(M2.id, 3)], depth |-> 1]
    /\ heap[Addr(M2.id, 3)] = 1

\* C8: for a chain of views each made by makeView on the one before, every
\* access inside the last view's extent is inside the extent of every
\* surface on the chain and reads and writes, on the Matrix M at the end of
\* the chain, the element at (i + r1 + ... + rn, j + c1 + ... + cn).
C8_ViewsCompose ==
    [][\A ref \in ViewRefs, i, j \in Coords :
          (MadeByMakeView(ref) /\ InExtent(ref, i, j) /\ Access(ref, i, j))
          => /\ WithinEverySurface(ref, i, j)
             /\ ChangedOnly(Addr(OwnerOf(ref).id,
                                 (i + RowOffsets(ref)) * OwnerOf(ref).cols
                                  + j + ColOffsets(ref)))]_vars

C8_Witness ==
    /\ pc = "accessed"
    /\ Len(views) = 2
    /\ views[1] = ViewObject(<<"M", 2>>, View(M2, 0, 1, 2, 1), "makeView")
    /\ views[2] = ViewObject(<<"V", 1>>, View(M2, 1, 0, 1, 1), "makeView")
    /\ last = [result |-> [kind |-> "Cell", addr |-> Addr(M2.id, 3)], depth |-> 2]
    /\ heap[Addr(M2.id, 3)] = 1

RECURSIVE Borrows(_, _)
\* the chain of ref passes through the View object v
Borrows(ref, v) ==
    /\ ref[1] = "V"
    /\ (ref[2] = v \/ Borrows(views[ref[2]].base, v))

\* v is the same window as w: w's extent, and the same element at every
\* (i, j) inside it
SameWindow(v, w) ==
    /\ views[v].maxRows = views[w].maxRows
    /\ views[v].maxCols = views[w].maxCols
    /\ \A i \in 0 .. views[w].maxRows - 1, j \in 0 .. views[w].maxCols - 1 :
          Index(Surface(<<"V", v>>), i, j) = Index(Surface(<<"V", w>>), i, j)

\* C9: after copy-constructing v from w, and after v = w where v borrowed
\* from another surface than w (and w does not borrow from v), v is the
\* same window as w.
C9_CopyAndAssign ==
    [][/\ \A w \in 1 .. Len(views) :
             \* the copy is the last View object of the next state
             CopyView(w) => SameWindow(Len(views), w)'
       /\ \A v, w \in 1 .. Len(views) :
             (/\ views[v].base # views[w].base
              /\ ~Borrows(<<"V", w>>, v)
              /\ AssignView(v, w))
             => SameWindow(v, w)']_vars

\* the row and column extent of the object ref
RowExtent(ref) == IF ref[1] = "M" THEN Surface(ref).rows ELSE views[ref[2]].maxRows
ColExtent(ref) == IF ref[1] = "M" THEN Surface(ref).cols ELSE views[ref[2]].maxCols

\* C10: an access (row, col) outside the extent of the Matrix or View it is
\* made on raises BadArrayAccess(row, col) and leaves every element as it
\* was; an access inside the extent raises no error.
C10_BoundsChecked ==
    [][\A ref \in Refs, row, col \in Coords :
          Access(ref, row, col)
          => IF row < 0 \/ row >= RowExtent(ref) \/ col < 0 \/ col >= ColExtent(ref)
             THEN last'.result = BadArrayAccess(row, col) /\ heap' = heap
             ELSE last'.result.kind = "Cell"]_vars


\* the View object n lies inside the surface it borrows: every (i, j) of
\* its extent is, translated by its offsets, in the extent of its base
InsideBase(n) ==
    \A i \in 0 .. views[n].maxRows - 1, j \in 0 .. views[n].maxCols - 1 :
       /\ 0 <= i + views[n].rowOffset
       /\ i + views[n].rowOffset < RowExtent(views[n].base)
       /\ 0 <= j + views[n].colOffset
       /\ j + views[n].colOffset < ColExtent(views[n].base)

\* C11: makeView(r, c, rows, cols) on a Matrix or View raises
\* IllegalViewSize when r < 0, c < 0, r + rows or c + cols exceeds the
\* receiver's extent, and no view is made; otherwise it makes a view with
\* offsets (r, c) and extent rows x cols that borrows the receiver and lies
\* inside it; either way no element and no existing view changes.
C11_MakeViewChecked ==
    [][\A ref \in Refs, r, c \in Offsets, rows, cols \in Extents :
          MakeView(ref, r, c, rows, cols)
          => /\ heap' = heap
             /\ IF r < 0 \/ c < 0 \/ r + rows > RowExtent(ref) \/ c + cols > ColExtent(ref)
                THEN /\ err' = "IllegalViewSize"
                     /\ last'.result = IllegalViewSize(rows, cols)
                     /\ views' = views
                ELSE /\ err' = "none"
                     /\ Len(views') = Len(views) + 1
                     /\ \A n \in 1 .. Len(views) : views'[n] = views[n]
                     /\ views'[Len(views')].base = ref
                     /\ views'[Len(views')].rowOffset = r
                     /\ views'[Len(views')].colOffset = c
                     /\ views'[Len(views')].maxRows = rows
                     /\ views'[Len(views')].maxCols = cols
                     /\ InsideBase(Len(views))']_vars

\* makeView on a view has been refused: a 2 x 1 view asked of a view
C11_Witness ==
    /\ pc = "terminated"
    /\ Len(views) = 1
    /\ last = [result |-> IllegalViewSize(2, 1), depth |-> 1]

=============================================================================
